---- MODULE Spec2Model ----
(***************************************************************************)
(* A model of the point-mass physics engine of backend/physics:            *)
(* Vector3, Body, BodyRegistry, the forces, the two integrators, the       *)
(* collision detector and resolver, the constraints and their solver, and  *)
(* Simulation (add_body, step) with create_body.                           *)
(*                                                                         *)
(* Numbers.  The code computes with Python floats.  Here a float is a      *)
(* fixed-point integer counting units of 1/Q, and every product and        *)
(* quotient is rounded to the nearest unit, as float arithmetic rounds to  *)
(* the nearest representable value.  The inputs are chosen so that the     *)
(* quantities a claim compares are exact at this resolution.               *)
(*                                                                         *)
(* Simulation.step is one synchronous call; it is modelled as a sequence   *)
(* of actions that follow its control flow (variable pc), so that the      *)
(* order of its phases and its intermediate states can be stated.          *)
(***************************************************************************)
EXTENDS Integers, Sequences, FiniteSets, TLC

(***************************************************************************)
(* Bounds of the model.                                                    *)
(***************************************************************************)
MaxSteps == 2       \* steps asked of one engine, over all its calls of step

(***************************************************************************)
(* Fixed-point arithmetic standing for float arithmetic.                   *)
(***************************************************************************)
Q == 1200

Abs(a) == IF a < 0 THEN -a ELSE a

Sgn(a) == IF a < 0 THEN -1 ELSE IF a > 0 THEN 1 ELSE 0

\* a / b for integers, rounded to the nearest integer (b # 0).
RDiv(a, b) == Sgn(a) * Sgn(b) * ((2 * Abs(a) + Abs(b)) \div (2 * Abs(b)))

\* The float num/den.
R(num, den) == RDiv(num * Q, den)

\* float * float and float / float.
FMul(a, b) == RDiv(a * b, Q)

FDiv(a, b) == RDiv(a * Q, b)

RECURSIVE SqrtSearch(_, _, _)
SqrtSearch(n, lo, hi) ==
    IF lo >= hi THEN lo
    ELSE LET mid == (lo + hi + 1) \div 2
         IN  IF mid * mid <= n THEN SqrtSearch(n, mid, hi)
                               ELSE SqrtSearch(n, lo, mid - 1)

\* math.sqrt on a sum of squares of fixed-point numbers (n counts 1/Q^2),
\* rounded to the nearest unit.
FSqrt(n) ==
    LET r == SqrtSearch(n, 0, 46000)
    IN  IF n - r * r > r THEN r + 1 ELSE r

(***************************************************************************)
(* Vector3 (vector.py): an immutable triple of floats.                     *)
(***************************************************************************)
Vector3(x, y, z) == <<x, y, z>>

ZERO_VECTOR == Vector3(0, 0, 0)

VAdd(a, b) == <<a[1] + b[1], a[2] + b[2], a[3] + b[3]>>

VSub(a, b) == <<a[1] - b[1], a[2] - b[2], a[3] - b[3]>>

VMul(a, s) == <<FMul(a[1], s), FMul(a[2], s), FMul(a[3], s)>>

\* __truediv__ raises ZeroDivisionError when scalar == 0: callers test s # 0.
VDiv(a, s) == <<FDiv(a[1], s), FDiv(a[2], s), FDiv(a[3], s)>>

\* An int times a vector (2 * k2_v in rk4_step).
VTimes(n, a) == <<n * a[1], n * a[2], n * a[3]>>

magnitude(a) == FSqrt(a[1] * a[1] + a[2] * a[2] + a[3] * a[3])

normalize(a) ==
    LET mag == magnitude(a)
    IN  IF mag = 0 THEN Vector3(0, 0, 0) ELSE VDiv(a, mag)

dot(a, b) == FMul(a[1], b[1]) + FMul(a[2], b[2]) + FMul(a[3], b[3])

(***************************************************************************)
(* Forces (forces.py).  A force is a record tagged by its class.           *)
(***************************************************************************)
\* Vector3(0.0, -9.80665, 0.0); 9.80665 = 196133/20000.
DefaultGravity == Vector3(0, -R(196133, 20000), 0)

ConstantForce(vector) == [type |-> "constant", vector |-> vector]

GravityForce(direction) == [type |-> "gravity", direction |-> direction]

DragForce(coefficient, reference_area, fluid_density) ==
    [type |-> "drag", coefficient |-> coefficient,
     reference_area |-> reference_area, fluid_density |-> fluid_density]

SpringForce(anchor, stiffness, damping) ==
    [type |-> "spring", anchor |-> anchor, stiffness |-> stiffness,
     damping |-> damping]

\* CustomForce(func): func is one of two callables, lambda body: body.velocity
\* * -1.0 ("damp") and one that raises ("raise").
CustomForce(func) == [type |-> "custom", func |-> func]

FrictionForce(coefficient_static, coefficient_kinetic, normal_force_magnitude) ==
    [type |-> "friction", coefficient_static |-> coefficient_static,
     coefficient_kinetic |-> coefficient_kinetic,
     normal_force_magnitude |-> normal_force_magnitude]

\* force.compute(body)
compute(force, body) ==
    CASE force.type = "constant" -> force.vector
      [] force.type = "gravity" -> VMul(force.direction, body.mass)
      [] force.type = "drag" ->
            LET speed == magnitude(body.velocity)
                drag_magnitude ==
                    FMul(FMul(FMul(FMul(R(1, 2), force.fluid_density),
                                   FMul(speed, speed)),
                              force.coefficient),
                         force.reference_area)
            IN  IF speed = 0 THEN ZERO_VECTOR
                ELSE VMul(normalize(body.velocity), -drag_magnitude)
      [] force.type = "spring" ->
            VAdd(VMul(VSub(body.position, force.anchor), -force.stiffness),
                 VMul(body.velocity, -force.damping))
      [] force.type = "friction" ->
            LET speed == magnitude(body.velocity)
                friction_magnitude ==
                    FMul(FMul(force.coefficient_kinetic,
                              force.normal_force_magnitude), body.mass)
            IN  IF speed = 0 THEN ZERO_VECTOR
                ELSE VMul(normalize(body.velocity), -friction_magnitude)
      [] force.type = "custom" /\ force.func = "damp" -> VMul(body.velocity, -Q)

(***************************************************************************)
(* Body (bodies.py).                                                       *)
(***************************************************************************)
\* The fields of the dataclass Body, that is the keywords __init__ accepts.
BodyFields ==
    {"identifier", "mass", "position", "velocity", "radius", "restitution",
     "forces"}

\* kwargs[key], or the default of a field that was not passed.
Get(kwargs, key, default) == IF key \in DOMAIN kwargs THEN kwargs[key] ELSE default

\* Body(**kwargs): the generated __init__ stores the fields as given and
\* checks nothing about their values; an unknown keyword is a TypeError.
BodyInit(kwargs) ==
    IF DOMAIN kwargs \subseteq BodyFields
    THEN [err |-> "none",
          body |-> [identifier |-> kwargs.identifier, mass |-> kwargs.mass,
                    position |-> kwargs.position, velocity |-> kwargs.velocity,
                    radius |-> Get(kwargs, "radius", Q),
                    restitution |-> Get(kwargs, "restitution", R(1, 2)),
                    forces |-> Get(kwargs, "forces", <<>>)]]
    ELSE [err |-> "TypeError"]

RECURSIVE SumForces(_, _, _)
SumForces(forces, body, k) ==
    IF k = 0 THEN ZERO_VECTOR
    ELSE VAdd(SumForces(forces, body, k - 1), compute(forces[k], body))

\* Body.net_force
net_force(body) == SumForces(body.forces, body, Len(body.forces))

\* Body.net_force when a force may raise: the sum, or the exception that
\* leaves the loop at the first force whose compute raises.
NetForceTry(body) ==
    IF \E k \in 1..Len(body.forces) :
           body.forces[k].type = "custom" /\ body.forces[k].func = "raise"
    THEN [err |-> "RuntimeError"]
    ELSE [err |-> "none", value |-> net_force(body)]

\* Body.add_force
add_force(body, force) == [body EXCEPT !.forces = Append(@, force)]

\* Body.net_force_for_state: the net force with position and velocity
\* substituted; the body's own state is restored on the way out.
net_force_for_state(body, position, velocity) ==
    net_force([body EXCEPT !.position = position, !.velocity = velocity])

(***************************************************************************)
(* Integrators (integrators.py).                                           *)
(***************************************************************************)
euler_step(dt, position, velocity, acceleration) ==
    LET new_velocity == VAdd(velocity, VMul(acceleration, dt))
        new_position == VAdd(position, VMul(new_velocity, dt))
    IN  [position |-> new_position, velocity |-> new_velocity]

\* acceleration_func is lambda pos, vel: body.net_force_for_state(pos, vel) / body.mass
rk4_step(dt, position, velocity, body) ==
    LET dv(pos, vel) == VDiv(net_force_for_state(body, pos, vel), body.mass)
        half == RDiv(dt, 2)
        sixth == RDiv(dt, 6)
        k1_v == dv(position, velocity)
        k1_p == velocity
        k2_v == dv(VAdd(position, VMul(k1_p, half)), VAdd(velocity, VMul(k1_v, half)))
        k2_p == VAdd(velocity, VMul(k1_v, half))
        k3_v == dv(VAdd(position, VMul(k2_p, half)), VAdd(velocity, VMul(k2_v, half)))
        k3_p == VAdd(velocity, VMul(k2_v, half))
        k4_v == dv(VAdd(position, VMul(k3_p, dt)), VAdd(velocity, VMul(k3_v, dt)))
        k4_p == VAdd(velocity, VMul(k3_v, dt))
        new_velocity ==
            VAdd(velocity,
                 VMul(VAdd(VAdd(k1_v, VTimes(2, k2_v)), VAdd(VTimes(2, k3_v), k4_v)),
                      sixth))
        new_position ==
            VAdd(position,
                 VMul(VAdd(VAdd(k1_p, VTimes(2, k2_p)), VAdd(VTimes(2, k3_p), k4_p)),
                      sixth))
    IN  [position |-> new_position, velocity |-> new_velocity]

(***************************************************************************)
(* BodyRegistry (bodies.py): a dict identifier -> Body.  A Python dict     *)
(* keeps insertion order, so the registry is the sequence of its values.   *)
(***************************************************************************)
Identifiers(bodies) == {bodies[i].identifier : i \in 1..Len(bodies)}

\* identifier in self._bodies
Contains(bodies, identifier) == identifier \in Identifiers(bodies)

\* The place of identifier in the registry (BodyRegistry.get, for a key
\* that is present).
IndexOf(bodies, identifier) ==
    CHOOSE i \in 1..Len(bodies) : bodies[i].identifier = identifier

\* self._bodies[body.identifier] = body, without the membership test.
RegistryAdd_Overwrite(bodies, body) ==
    IF Contains(bodies, body.identifier)
    THEN [err |-> "none",
          bodies |-> [bodies EXCEPT ![IndexOf(bodies, body.identifier)] = body]]
    ELSE [err |-> "none", bodies |-> Append(bodies, body)]

\* BodyRegistry.add
RegistryAdd(bodies, body) ==
    IF Contains(bodies, body.identifier)
    THEN [err |-> "ValueError", bodies |-> bodies]
    ELSE [err |-> "none", bodies |-> Append(bodies, body)]

(***************************************************************************)
(* Collisions (collisions.py).                                             *)
(***************************************************************************)
NoCollision == [none |-> TRUE]

\* if distance >= combined_radius: return None
Overlapping_OrTouching(distance, combined_radius) == ~(distance > combined_radius)

Overlapping(distance, combined_radius) == ~(distance >= combined_radius)

\* CollisionDetector.detect_sphere_collision
detect_sphere_collision(body1, body2) ==
    LET displacement == VSub(body2.position, body1.position)
        distance == magnitude(displacement)
        combined_radius == body1.radius + body2.radius
        penetration_depth == combined_radius - distance
        contact_normal ==
            IF distance > 0 THEN normalize(displacement) ELSE Vector3(Q, 0, 0)
    IN  IF ~Overlapping(distance, combined_radius) THEN NoCollision
        ELSE [body1_id |-> body1.identifier,
              body2_id |-> body2.identifier,
              contact_point |-> VAdd(body1.position, VMul(contact_normal, body1.radius)),
              contact_normal |-> contact_normal,
              penetration_depth |-> penetration_depth,
              relative_velocity |-> VSub(body2.velocity, body1.velocity)]

\* The loops of detect_all_collisions, from pair (i, j) on.
RECURSIVE DetectFrom(_, _, _)
DetectFrom(bodies, i, j) ==
    IF i > Len(bodies) THEN <<>>
    ELSE IF j > Len(bodies) THEN DetectFrom(bodies, i + 1, i + 2)
    ELSE LET collision == detect_sphere_collision(bodies[i], bodies[j])
         IN  IF collision = NoCollision
             THEN DetectFrom(bodies, i, j + 1)
             ELSE <<collision>> \o DetectFrom(bodies, i, j + 1)

\* CollisionDetector.detect_all_collisions
detect_all_collisions(bodies) == DetectFrom(bodies, 1, 2)

\* The penetration allowed and the share of it corrected.
slop == R(1, 100)

correction_percentage == R(4, 10)

\* CollisionResolver._position_correction, on the pair (body1, body2);
\* inv_mass is 1/body1.mass + 1/body2.mass, which resolve_collision has
\* already divided by.
position_correction(collision, body1, body2) ==
    LET inv_mass == FDiv(Q, body1.mass) + FDiv(Q, body2.mass)
        over == collision.penetration_depth - slop
        correction ==
            FMul(FDiv(IF over > 0 THEN over ELSE 0, inv_mass), correction_percentage)
        correction_vector == VMul(collision.contact_normal, correction)
    IN  [body1 |-> [body1 EXCEPT
                      !.position = VSub(@, VDiv(correction_vector, body1.mass))],
         body2 |-> [body2 EXCEPT
                      !.position = VAdd(@, VDiv(correction_vector, body2.mass))]]

Min(a, b) == IF a < b THEN a ELSE b

impulse_magnitude_NoBounce(restitution, relative_velocity_normal, inv_mass) ==
    FDiv(FMul(-restitution, relative_velocity_normal), inv_mass)

\* impulse_magnitude = -(1 + restitution) * relative_velocity_normal,
\* divided by 1/m1 + 1/m2.
impulse_magnitude(restitution, relative_velocity_normal, inv_mass) ==
    FDiv(FMul(-(Q + restitution), relative_velocity_normal), inv_mass)

\* A pair at rest along the normal is skipped too.
Separating_OrResting(relative_velocity_normal) == relative_velocity_normal >= 0

\* if relative_velocity_normal > 0: return
Separating(relative_velocity_normal) == relative_velocity_normal > 0

\* The impulse changes both velocities alike, whatever the masses.
VelocityChange_Unweighted(impulse, mass) == impulse

\* impulse / body.mass
VelocityChange(impulse, mass) == VDiv(impulse, mass)

\* The relative velocity is read from the bodies when the collision is resolved.
RelativeVelocity_Current(collision, body1, body2) == VSub(body2.velocity, body1.velocity)

\* collision.relative_velocity
RelativeVelocity(collision, body1, body2) == collision.relative_velocity

\* CollisionResolver.resolve_collision: the two bodies afterwards, or the
\* ZeroDivisionError of 1/mass or of the division by 1/m1 + 1/m2.
resolve_collision(collision, body1, body2, dt) ==
    LET relative_velocity_normal ==
            dot(RelativeVelocity(collision, body1, body2), collision.contact_normal)
        restitution == Min(body1.restitution, body2.restitution)
        inv_mass == FDiv(Q, body1.mass) + FDiv(Q, body2.mass)
        impulse ==
            VMul(collision.contact_normal,
                 impulse_magnitude(restitution, relative_velocity_normal, inv_mass))
        hit1 == [body1 EXCEPT !.velocity = VSub(@, VelocityChange(impulse, body1.mass))]
        hit2 == [body2 EXCEPT !.velocity = VAdd(@, VelocityChange(impulse, body2.mass))]
        moved == position_correction(collision, hit1, hit2)
    IN  IF Separating(relative_velocity_normal)
        THEN [err |-> "none", body1 |-> body1, body2 |-> body2]
        ELSE IF body1.mass = 0 \/ body2.mass = 0 \/ inv_mass = 0
        THEN [err |-> "ZeroDivisionError", body1 |-> body1, body2 |-> body2]
        ELSE [err |-> "none", body1 |-> moved.body1, body2 |-> moved.body2]

(***************************************************************************)
(* Constraints (constraints.py).  A constraint is a record tagged by its   *)
(* class; apply works on the registry and returns it as the call leaves    *)
(* it, with the exception raised, if any.                                  *)
(***************************************************************************)
DistanceConstraint(body1_id, body2_id, target_distance, stiffness) ==
    [kind |-> "distance", body1_id |-> body1_id, body2_id |-> body2_id,
     target_distance |-> target_distance, stiffness |-> stiffness]

SpringConstraint(body1_id, body2_id, rest_length, spring_constant, damping) ==
    [kind |-> "spring", body1_id |-> body1_id, body2_id |-> body2_id,
     rest_length |-> rest_length, spring_constant |-> spring_constant,
     damping |-> damping]

PinConstraint(body_id, anchor_position, stiffness) ==
    [kind |-> "pin", body_id |-> body_id, anchor_position |-> anchor_position,
     stiffness |-> stiffness]

RevoluteJoint(body1_id, body2_id, anchor_point) ==
    [kind |-> "revolute", body1_id |-> body1_id, body2_id |-> body2_id,
     anchor_point |-> anchor_point]

\* The identifiers a constraint looks up.
Referenced(c) ==
    IF c.kind = "pin" THEN {c.body_id} ELSE {c.body1_id, c.body2_id}

\* try: bodies.get(...) except KeyError: return
\* TRUE when every lookup of the constraint finds its body.
Resolves(c, bodies) == \A id \in Referenced(c) : Contains(bodies, id)

\* 1e-10 and 1e-6 are below the resolution 1/Q: a distance is below either
\* exactly when it is below one unit.
COINCIDENT == 1

SATISFIED == 1

Returned(bodies) == [err |-> "none", bodies |-> bodies]

Raised(err, bodies) == [err |-> err, bodies |-> bodies]

\* The KeyError of bodies.get, not caught.
Skipped_Raises(bodies) == Raised("KeyError", bodies)

\* except KeyError: return
Skipped(bodies) == Returned(bodies)

\* A quarter of the violation corrected by each application, not half.
DistanceCorrection_Quarter(violation, stiffness) ==
    FMul(FMul(violation, stiffness), R(1, 4))

\* correction = violation * self.stiffness * 0.5
DistanceCorrection(violation, stiffness) == FMul(FMul(violation, stiffness), R(1, 2))

\* DistanceConstraint.apply
DistanceApply(c, bodies, dt) ==
    LET i1 == IndexOf(bodies, c.body1_id)
        i2 == IndexOf(bodies, c.body2_id)
        body1 == bodies[i1]
        body2 == bodies[i2]
        displacement == VSub(body2.position, body1.position)
        current_distance == magnitude(displacement)
        violation == current_distance - c.target_distance
        direction == VDiv(displacement, current_distance)
        mass_factor == FDiv(Q, body1.mass + body2.mass)
        correction == DistanceCorrection(violation, c.stiffness)
        correction_vector == VMul(direction, correction)
        after1 == [bodies EXCEPT ![i1].position =
                      VAdd(@, VMul(correction_vector, FMul(body2.mass, mass_factor)))]
        after2 == [after1 EXCEPT ![i2].position =
                      VSub(@, VMul(correction_vector, FMul(body1.mass, mass_factor)))]
    IN  IF ~Resolves(c, bodies) THEN Skipped(bodies)
        ELSE IF current_distance < COINCIDENT THEN Returned(bodies)
        ELSE IF Abs(violation) < SATISFIED THEN Returned(bodies)
        ELSE IF body1.mass + body2.mass = 0 THEN Raised("ZeroDivisionError", bodies)
        ELSE Returned(after2)

\* SpringConstraint.apply
SpringApply(c, bodies, dt) ==
    LET i1 == IndexOf(bodies, c.body1_id)
        i2 == IndexOf(bodies, c.body2_id)
        body1 == bodies[i1]
        body2 == bodies[i2]
        displacement == VSub(body2.position, body1.position)
        current_distance == magnitude(displacement)
        spring_force_magnitude ==
            FMul(-c.spring_constant, current_distance - c.rest_length)
        direction == VDiv(displacement, current_distance)
        relative_velocity == VSub(body2.velocity, body1.velocity)
        damping_force ==
            VMul(direction, FMul(dot(relative_velocity, direction), c.damping))
        spring_force ==
            IF c.damping > 0
            THEN VSub(VMul(direction, spring_force_magnitude), damping_force)
            ELSE VMul(direction, spring_force_magnitude)
        impulse == VMul(spring_force, dt)
        after1 == [bodies EXCEPT ![i1].velocity = VSub(@, VDiv(impulse, body1.mass))]
        after2 == [after1 EXCEPT ![i2].velocity = VAdd(@, VDiv(impulse, body2.mass))]
    IN  IF ~Resolves(c, bodies) THEN Skipped(bodies)
        ELSE IF current_distance < COINCIDENT THEN Returned(bodies)
        ELSE IF body1.mass = 0 THEN Raised("ZeroDivisionError", bodies)
        ELSE IF body2.mass = 0 THEN Raised("ZeroDivisionError", after1)
        ELSE Returned(after2)

\* PinConstraint.apply
PinApply(c, bodies, dt) ==
    LET i == IndexOf(bodies, c.body_id)
        body == bodies[i]
        displacement == VSub(body.position, c.anchor_position)
        correction == VMul(displacement, c.stiffness)
    IN  IF ~Resolves(c, bodies) THEN Skipped(bodies)
        ELSE Returned([bodies EXCEPT
                         ![i].position = VSub(@, correction),
                         ![i].velocity = VMul(@, Q - FMul(c.stiffness, dt))])

\* RevoluteJoint.apply
RevoluteApply(c, bodies, dt) ==
    LET i1 == IndexOf(bodies, c.body1_id)
        i2 == IndexOf(bodies, c.body2_id)
        body1 == bodies[i1]
        body2 == bodies[i2]
        total_mass == body1.mass + body2.mass
        com == VDiv(VAdd(VMul(body1.position, body1.mass),
                         VMul(body2.position, body2.mass)), total_mass)
        correction == VSub(c.anchor_point, com)
        mass_factor == FDiv(Q, total_mass)
        after1 == [bodies EXCEPT ![i1].position =
                      VAdd(@, VMul(correction, FMul(body1.mass, mass_factor)))]
        after2 == [after1 EXCEPT ![i2].position =
                      VAdd(@, VMul(correction, FMul(body2.mass, mass_factor)))]
    IN  IF ~Resolves(c, bodies) THEN Skipped(bodies)
        ELSE IF total_mass = 0 THEN Raised("ZeroDivisionError", bodies)
        ELSE Returned(after2)

\* constraint.apply(bodies, dt), dispatched on the constraint's class.
ConstraintApply(c, bodies, dt) ==
    CASE c.kind = "distance" -> DistanceApply(c, bodies, dt)
      [] c.kind = "spring" -> SpringApply(c, bodies, dt)
      [] c.kind = "pin" -> PinApply(c, bodies, dt)
      [] c.kind = "revolute" -> RevoluteApply(c, bodies, dt)

(***************************************************************************)
(* The inputs the model draws from.                                        *)
(***************************************************************************)
Ids == {"a", "b"}

\* The order of str on the identifiers (sorted(snapshot.items())).
Rank(id) == CASE id = "a" -> 1 [] id = "b" -> 2 [] id = "c" -> 3

Methods == {"euler", "rk4", "verlet"}

Timesteps == {R(1, 10)}

Gravities == {Vector3(0, 0, 0), Vector3(0, -Q, 0)}

\* Arguments of Body(...), the identifier apart.
Args(mass, position, velocity, radius, restitution, forces) ==
    [mass |-> mass, position |-> position, velocity |-> velocity,
     radius |-> radius, restitution |-> restitution, forces |-> forces]

\* Two unit masses that overlap and approach head-on; a heavier body at rest
\* that the second one exactly touches once it has moved for one timestep;
\* a body of mass zero.
BodyArgs ==
    { Args(Q, Vector3(-R(3, 10), 0, 0), Vector3(Q, 0, 0), R(1, 2), Q, <<>>),
      Args(Q, Vector3(R(3, 10), 0, 0), Vector3(-Q, 0, 0), R(1, 2), Q, <<>>),
      Args(2 * Q, Vector3(R(12, 10), 0, 0), Vector3(0, 0, 0), R(1, 2), R(1, 2),
           <<ConstantForce(Vector3(0, 0, 0))>>),
      Args(0, Vector3(0, 2 * Q, 0), Vector3(0, 0, 0), R(1, 2), R(1, 2), <<>>) }

\* The identifier "c" is never added.
ConstraintLists ==
    { <<>>,
      <<DistanceConstraint("a", "b", 2 * Q, Q),
        SpringConstraint("b", "a", Q, 10 * Q, R(1, 2))>>,
      <<PinConstraint("a", Vector3(0, 0, 0), R(1, 2)),
        RevoluteJoint("b", "c", Vector3(Q, 0, 0))>> }

(***************************************************************************)
(* The state.                                                              *)
(***************************************************************************)
VARIABLES
    method, timestep, gravity, enable_collisions,  \* Simulation's fields
    bodies,             \* Simulation.bodies, the registry
    constraints,        \* Simulation.constraint_solver.constraints
    passed,             \* the body the caller passed to the last call, add_body, as
                        \* that call left it
    created,            \* the body the last create_body returned
    asked,              \* the arguments of that call of create_body
    kept,               \* the results of step the caller has kept, when it keeps them
    op, err,            \* the last call and what it raised
    stepped, done,      \* whether step was called yet; steps asked for so far
    pc,                 \* where Simulation.step is
    steps, remaining,   \* step's argument; iterations of its loop still to run
    bi,                 \* the body the integration loop is at
    collisions, ci,     \* the detected list; the collision the loop is at
    pass, ki,           \* the solver's iteration; the constraint it is at
    history, energy_history, total_collision_count,  \* step's locals
    result,             \* what the last step returned
    log,                \* what the current iteration of step has done so far
    callStart,          \* the registry when step was called
    postInt,            \* the registry when the collisions were detected
    added,              \* per identifier: the forces given and the gravity at add_body
    frame               \* the locals of rk4_step and net_force_for_state when these
                        \* are followed statement by statement

vars ==
    <<method, timestep, gravity, enable_collisions, bodies, constraints, passed, created,
      asked, kept, op, err, stepped, done, pc, steps, remaining, bi, collisions, ci, pass, ki, history,
      energy_history, total_collision_count, result, log, callStart, postInt, added, frame>>

\* What no call of the engine's methods changes.
config == <<method, timestep, enable_collisions, constraints, frame>>

caller == <<passed, created, asked, kept>>

locals ==
    <<steps, remaining, bi, collisions, ci, pass, ki, history, energy_history,
      total_collision_count, log, callStart, postInt>>

NoBody == [none |-> TRUE]

NoResult == [none |-> TRUE]

NoCall == [none |-> TRUE]

NoFrame == [none |-> TRUE]

\* The caller keeps no results.
NothingKept == [none |-> TRUE]

\* Simulation(timestep=..., method=..., gravity=..., enable_collisions=...,
\* constraint_solver=...): the dataclass stores its fields and checks nothing.
Init ==
    /\ method \in Methods
    /\ timestep \in Timesteps
    /\ gravity = Vector3(0, -Q, 0)
    /\ enable_collisions \in BOOLEAN
    /\ constraints \in ConstraintLists
    /\ bodies = <<>>
    /\ passed = NoBody /\ created = NoBody /\ asked = NoCall /\ kept = NothingKept
    /\ op = "init" /\ err = "none" /\ stepped = FALSE /\ done = 0
    /\ pc = "idle"
    /\ steps = 0 /\ remaining = 0 /\ bi = 0
    /\ collisions = <<>> /\ ci = 0 /\ pass = 0 /\ ki = 0
    /\ history = <<>> /\ energy_history = <<>> /\ total_collision_count = 0
    /\ result = NoResult
    /\ log = <<>> /\ callStart = <<>> /\ postInt = <<>> /\ frame = NoFrame
    /\ added = <<>>

\* The engine is populated first and stepped afterwards.
Populating == pc = "idle" /\ ~stepped

(***************************************************************************)
(* Simulation.add_body, called on a freshly constructed Body.              *)
(***************************************************************************)
\* GravityForce() with its default direction, not the engine's gravity.
AutoGravity_Default(body, g) ==
    IF body.forces = <<>> THEN add_force(body, GravityForce(DefaultGravity)) ELSE body

\* if not body.forces: body.add_force(GravityForce(direction=self.gravity))
AutoGravity(body, g) ==
    IF body.forces = <<>> THEN add_force(body, GravityForce(g)) ELSE body

add_body(id, args) ==
    LET made == BodyInit([identifier |-> id] @@ args)
        body == AutoGravity(made.body, gravity)
        reg == RegistryAdd(bodies, body)
    IN  /\ Populating
        /\ made.err = "none"
        /\ op' = "add_body"
        /\ err' = reg.err
        /\ bodies' = reg.bodies
        /\ passed' = body
        /\ created' = NoBody /\ asked' = NoCall /\ kept' = kept
        /\ added' = IF reg.err = "none"
                    THEN Append(added, [identifier |-> id, forces |-> args.forces,
                                        gravity |-> gravity])
                    ELSE added
        /\ UNCHANGED <<gravity, config, stepped, done, pc, locals, result>>

\* simulation.gravity = ...
set_gravity(g) ==
    /\ Populating
    /\ g # gravity
    /\ op' = "set_gravity" /\ err' = "none"
    /\ gravity' = g
    /\ passed' = NoBody /\ created' = NoBody /\ asked' = NoCall /\ kept' = kept
    /\ UNCHANGED <<config, bodies, added, stepped, done, pc, locals, result>>

(***************************************************************************)
(* create_body (simulations.py).                                           *)
(***************************************************************************)
\* Vector3.from_iterable, on a sequence of 2 or 3 numbers.
from_iterable(values) ==
    Vector3(values[1], values[2], IF Len(values) > 2 THEN values[3] ELSE 0)

\* The branch of create_body's loop for one force descriptor.
ForceOf(force_data) ==
    LET kind == Get(force_data, "type", "constant")
    IN  CASE kind = "constant" ->
               [err |-> "none",
                force |-> ConstantForce(
                    from_iterable(Get(force_data, "vector", <<0, 0, 0>>)))]
          [] kind = "gravity" ->
               [err |-> "none",
                force |-> GravityForce(
                    from_iterable(Get(force_data, "direction", DefaultGravity)))]
          [] kind = "drag" ->
               [err |-> "none",
                force |-> DragForce(Get(force_data, "coefficient", R(47, 100)),
                                    Get(force_data, "reference_area", Q),
                                    Get(force_data, "fluid_density", R(1225, 1000)))]
          [] kind = "spring" ->
               [err |-> "none",
                force |-> SpringForce(
                    from_iterable(Get(force_data, "anchor", <<0, 0, 0>>)),
                    Get(force_data, "stiffness", 10 * Q),
                    Get(force_data, "damping", 0))]
          [] kind = "friction" ->
               [err |-> "none",
                force |-> FrictionForce(
                    Get(force_data, "coefficient_static", R(8, 10)),
                    Get(force_data, "coefficient_kinetic", R(6, 10)),
                    Get(force_data, "normal_force_magnitude", R(981, 100)))]
          [] OTHER -> [err |-> "ValueError"]

\* for force_data in forces: from descriptor k on.
RECURSIVE AddForces(_, _, _)
AddForces(body, forces, k) ==
    IF k > Len(forces) THEN [err |-> "none", body |-> body]
    ELSE LET f == ForceOf(forces[k])
         IN  IF f.err # "none" THEN [err |-> f.err]
             ELSE AddForces(add_force(body, f.force), forces, k + 1)

\* create_body(identifier, mass, position, velocity, forces, radius,
\* restitution, friction): the body it returns, or what it raises.
create_body(identifier, mass, position, velocity, forces, radius, restitution, friction) ==
    LET made == BodyInit([identifier |-> identifier, mass |-> mass,
                          position |-> from_iterable(position),
                          velocity |-> from_iterable(velocity),
                          radius |-> radius, restitution |-> restitution,
                          friction |-> friction])
    IN  IF made.err # "none" THEN made ELSE AddForces(made.body, forces, 1)

ForceDescriptors ==
    { <<>>,
      <<[type |-> "drag", coefficient |-> R(1, 10)]>>,
      <<[type |-> "constant", vector |-> <<0, 12 * Q, 0>>], [type |-> "custom"]>> }

CreateArgs == {args \in BodyArgs : args.forces = <<>> /\ args.position[1] <= 0}

\* A call of create_body with every argument given.
create_call(identifier, mass, position, velocity, forces, radius, restitution, friction) ==
    LET r == create_body(identifier, mass, position, velocity, forces, radius,
                         restitution, friction)
    IN  /\ Populating
        /\ op' = "create_body"
        /\ err' = r.err
        /\ created' = IF r.err = "none" THEN r.body ELSE NoBody
        /\ asked' = [identifier |-> identifier, mass |-> mass, position |-> position,
                     velocity |-> velocity, forces |-> forces, radius |-> radius,
                     restitution |-> restitution, friction |-> friction]
        /\ passed' = NoBody /\ kept' = kept
        /\ UNCHANGED <<gravity, config, bodies, added, stepped, done, pc, locals, result>>

\* A call of create_body, friction left at its default 0.0.
create(id, args, forces) ==
    create_call(id, args.mass, args.position, args.velocity, forces, args.radius,
                args.restitution, 0)

(***************************************************************************)
(* Simulation.step (simulations.py), phase by phase.                       *)
(***************************************************************************)
Event(ev, id, n, k) == [ev |-> ev, id |-> id, n |-> n, k |-> k]

\* An unknown method integrated as "euler" instead of raising.
Integrate_FallsBack(body) ==
    IF body.mass = 0 THEN [err |-> "ZeroDivisionError"]
    ELSE [err |-> "none",
          new |-> euler_step(timestep, body.position, body.velocity,
                             VDiv(net_force(body), body.mass))]

\* The body of the integration loop for one body: its new position and
\* velocity, or what is raised (net_force / mass raises ZeroDivisionError
\* when the mass is 0).
Integrate(body) ==
    IF method = "rk4"
    THEN IF body.mass = 0 THEN [err |-> "ZeroDivisionError"]
         ELSE [err |-> "none",
               new |-> rk4_step(timestep, body.position, body.velocity, body)]
    ELSE IF method = "euler"
    THEN IF body.mass = 0 THEN [err |-> "ZeroDivisionError"]
         ELSE [err |-> "none",
               new |-> euler_step(timestep, body.position, body.velocity,
                                  VDiv(net_force(body), body.mass))]
    ELSE [err |-> "ValueError"]

\* iterations=2 in the call of constraint_solver.solve
ITERATIONS == 2

\* Where step goes once the bodies are integrated, once the collisions are
\* handled, and once the solver is done.
AfterIntegration == "collide"

AfterCollisions_NoSolve == "record"

AfterCollisions == IF Len(constraints) = 0 THEN "record" ELSE "constrain"

AfterConstraints == "record"

\* The count is not started afresh by a call.
CountAtEntry_Carried == total_collision_count

\* total_collision_count = 0
CountAtEntry == 0

\* step(steps): the call starts.
StepEnter(N) ==
    /\ pc = "idle"
    /\ op' = "step" /\ err' = "none" /\ stepped' = TRUE
    /\ done' = done + N
    /\ passed' = NoBody /\ created' = NoBody /\ asked' = NoCall /\ kept' = kept
    /\ steps' = N /\ remaining' = N
    /\ history' = <<>> /\ energy_history' = <<>> /\ total_collision_count' = CountAtEntry
    /\ result' = NoResult
    /\ callStart' = bodies
    /\ log' = <<>>
    /\ pc' = "loop"
    /\ UNCHANGED <<gravity, config, bodies, added, bi, collisions, ci, pass, ki,
                   postInt>>

\* A call of step, while the steps asked of the engine stay within MaxSteps.
step_call(N) == done + N <= MaxSteps /\ StepEnter(N)

\* for _ in range(steps): one more iteration starts.
step_iter ==
    /\ pc = "loop" /\ remaining > 0
    /\ bi' = 1
    /\ log' = <<>>
    /\ pc' = IF Len(bodies) = 0 THEN AfterIntegration ELSE "integrate"
    /\ UNCHANGED <<gravity, config, bodies, caller, added, op, err, stepped, done, steps,
                   remaining, collisions, ci, pass, ki, history, energy_history,
                   total_collision_count, result, callStart, postInt>>

\* for body in self.bodies.all(): one body is integrated, or the call raises.
integrate_body ==
    LET body == bodies[bi]
        r == Integrate(body)
    IN  /\ pc = "integrate"
        /\ IF r.err = "none"
           THEN /\ bodies' = [bodies EXCEPT ![bi].position = r.new.position,
                                            ![bi].velocity = r.new.velocity]
                /\ log' = Append(log, Event("integrate", body.identifier, 0, bi))
                /\ bi' = bi + 1
                /\ pc' = IF bi = Len(bodies) THEN AfterIntegration ELSE "integrate"
                /\ err' = err
           ELSE /\ err' = r.err
                /\ pc' = "idle"
                /\ UNCHANGED <<bodies, log, bi>>
        /\ UNCHANGED <<gravity, config, caller, added, op, stepped, done, steps, remaining,
                       collisions, ci, pass, ki, history, energy_history,
                       total_collision_count, result, callStart, postInt>>

\* The normal component of a collision's recorded relative velocity.
NormalVelocity(collision) == dot(collision.relative_velocity, collision.contact_normal)

\* Only the pairs that are not separating are counted.
Counted_Approaching(found) ==
    Cardinality({k \in 1..Len(found) : NormalVelocity(found[k]) <= 0})

\* len(collisions)
Counted(found) == Len(found)

\* if self.enable_collisions: the collisions are detected and counted.
detect ==
    LET found == detect_all_collisions(bodies)
    IN  /\ pc = "collide"
        /\ IF enable_collisions
           THEN /\ collisions' = found
                /\ total_collision_count' = total_collision_count + Counted(found)
                /\ ci' = 1
                /\ postInt' = bodies
                /\ log' = Append(log, Event("detect", "", Len(found), 0))
                /\ pc' = IF Len(found) = 0 THEN AfterCollisions ELSE "resolve"
           ELSE /\ pc' = AfterCollisions
                /\ UNCHANGED <<collisions, total_collision_count, ci, postInt, log>>
        /\ pass' = 1 /\ ki' = 1
        /\ UNCHANGED <<gravity, config, bodies, caller, added, op, err, stepped, done, steps,
                       remaining, bi, history, energy_history, result, callStart>>

\* for collision in collisions: one collision is resolved, or the call raises.
resolve ==
    LET collision == collisions[ci]
        i1 == IndexOf(bodies, collision.body1_id)
        i2 == IndexOf(bodies, collision.body2_id)
        r == resolve_collision(collision, bodies[i1], bodies[i2], timestep)
    IN  /\ pc = "resolve"
        /\ IF r.err = "none"
           THEN /\ bodies' = [bodies EXCEPT ![i1] = r.body1, ![i2] = r.body2]
                /\ log' = Append(log, Event("resolve", "", 0, ci))
                /\ ci' = ci + 1
                /\ pc' = IF ci = Len(collisions) THEN AfterCollisions ELSE "resolve"
                /\ err' = err
           ELSE /\ err' = r.err
                /\ pc' = "idle"
                /\ UNCHANGED <<bodies, log, ci>>
        /\ UNCHANGED <<gravity, config, caller, added, op, stepped, done, steps, remaining,
                       bi, collisions, pass, ki, history, energy_history,
                       total_collision_count, result, callStart, postInt>>

\* ConstraintSolver.solve: one constraint is applied in one iteration.
constrain ==
    LET r == ConstraintApply(constraints[ki], bodies, timestep)
        last == ki = Len(constraints)
    IN  /\ pc = "constrain"
        /\ bodies' = r.bodies
        /\ IF r.err = "none"
           THEN /\ log' = Append(log, Event("constraint", "", pass, ki))
                /\ ki' = IF last THEN 1 ELSE ki + 1
                /\ pass' = IF last THEN pass + 1 ELSE pass
                /\ pc' = IF last /\ pass = ITERATIONS THEN AfterConstraints
                         ELSE "constrain"
                /\ err' = err
           ELSE /\ err' = r.err
                /\ pc' = "idle"
                /\ UNCHANGED <<log, ki, pass>>
        /\ UNCHANGED <<gravity, config, caller, added, op, stepped, done, steps, remaining,
                       bi, collisions, ci, history, energy_history,
                       total_collision_count, result, callStart, postInt>>

\* The dict snapshot: one entry per body, in the order of the registry.
RECURSIVE Snapshot(_, _)
Snapshot(bs, k) ==
    IF k = 0 THEN <<>>
    ELSE Append(Snapshot(bs, k - 1),
                [identifier |-> bs[k].identifier, position |-> bs[k].position,
                 velocity |-> bs[k].velocity])

\* kinetic + potential of one body
Energy(body, g) ==
    LET speed == magnitude(body.velocity)
        kinetic == FMul(FMul(R(1, 2), body.mass), FMul(speed, speed))
        potential == FMul(-body.mass, dot(g, body.position))
    IN  kinetic + potential

RECURSIVE TotalEnergy(_, _, _)
TotalEnergy(bs, g, k) ==
    IF k = 0 THEN 0 ELSE TotalEnergy(bs, g, k - 1) + Energy(bs[k], g)

\* The energy is summed and the snapshot taken; both are appended.
record ==
    /\ pc = "record"
    /\ history' = Append(history, Snapshot(bodies, Len(bodies)))
    /\ energy_history' = Append(energy_history, TotalEnergy(bodies, gravity, Len(bodies)))
    /\ log' = Append(log, Event("record", "", 0, 0))
    /\ remaining' = remaining - 1
    /\ pc' = "loop"
    /\ UNCHANGED <<gravity, config, bodies, caller, added, op, err, stepped, done, steps, bi,
                   collisions, ci, pass, ki, total_collision_count, result, callStart,
                   postInt>>

\* return SimulationResult(...)
SimulationResult(h, N, dt, e, count) ==
    [steps |-> h, total_time |-> N * dt, conserved_energy |-> e,
     collision_count |-> count]

step_return ==
    /\ pc = "loop" /\ remaining = 0
    /\ result' = SimulationResult(history, steps, timestep, energy_history,
                                  total_collision_count)
    /\ pc' = "idle"
    /\ UNCHANGED <<gravity, config, bodies, caller, added, op, err, stepped, done, steps,
                   remaining, bi, collisions, ci, pass, ki, history, energy_history,
                   total_collision_count, log, callStart, postInt>>

Next ==
    \/ \E id \in Ids, args \in BodyArgs : add_body(id, args)
    \/ \E g \in Gravities : set_gravity(g)
    \/ \E N \in 0..MaxSteps : step_call(N)
    \/ step_iter
    \/ integrate_body
    \/ detect
    \/ resolve
    \/ constrain
    \/ record
    \/ step_return

Spec == Init /\ [][Next]_vars

(***************************************************************************)
(* _serialize_result (app/api/v1/endpoints/simulation.py): each snapshot   *)
(* becomes the list of its items in sorted order.                          *)
(***************************************************************************)
\* Insert an item into a list sorted by identifier.
RECURSIVE Insert(_, _)
Insert(sorted, item) ==
    IF sorted = <<>> THEN <<item>>
    ELSE IF Rank(item.identifier) < Rank(Head(sorted).identifier)
    THEN <<item>> \o sorted
    ELSE <<Head(sorted)>> \o Insert(Tail(sorted), item)

\* sorted(snapshot.items())
RECURSIVE Sorted(_, _)
Sorted(snapshot, k) ==
    IF k = 0 THEN <<>> ELSE Insert(Sorted(snapshot, k - 1), snapshot[k])

\* The snapshots passed on as the engine built them.
serialize_steps_Unsorted(res) == res.steps

\* The steps of the response: one sorted list per snapshot.
serialize_steps(res) ==
    [n \in 1..Len(res.steps) |-> Sorted(res.steps[n], Len(res.steps[n]))]

(***************************************************************************)
(* The claims.                                                             *)
(***************************************************************************)
Supported == {"euler", "rk4"}

\* step has returned its result.
Returned_step == op = "step" /\ pc = "idle" /\ err = "none"

\* step has ended, by returning or by raising.
Ended_step == op = "step" /\ pc = "idle"

Keys(snapshot) == {snapshot[i].identifier : i \in 1..Len(snapshot)}

\* The shape C1 states of a result of step(steps).
Shaped(res) ==
    /\ Len(res.steps) = steps
    /\ Len(res.conserved_energy) = steps
    /\ \A n \in 1..Len(res.steps) :
          /\ Keys(res.steps[n]) = Identifiers(bodies)
          /\ Len(res.steps[n]) = Len(bodies)
    /\ res.total_time = steps * timestep

\* C1 (as stated): for every registry content, every N >= 0 and either
\* supported method, step(N) returns a result with exactly N snapshots and N
\* energy values, every snapshot's keys being the registry's identifiers, and
\* total_time = N x timestep.
C1_ShapeOfEveryRun ==
    (Ended_step /\ method \in Supported) => (result # NoResult /\ Shaped(result))

\* C1, for the calls that return: whenever step(N) returns, under any
\* method, its result has that shape.
C1_ShapeWhenReturned == Returned_step => (result # NoResult /\ Shaped(result))

C1_Returned2 ==
    Returned_step /\ steps = 2 /\ Len(bodies) = 2 /\ method = "rk4"

\* What one iteration of step does, in order, when it detects n collisions:
\* every body integrated in registry order; with collisions enabled the
\* detection and then the n resolutions; two passes over the constraints in
\* list order; the record.
IntegrationEvents == [i \in 1..Len(bodies) |-> Event("integrate", bodies[i].identifier, 0, i)]

CollisionEvents(n) ==
    IF enable_collisions
    THEN <<Event("detect", "", n, 0)>> \o [k \in 1..n |-> Event("resolve", "", 0, k)]
    ELSE <<>>

PassEvents(p) == [k \in 1..Len(constraints) |-> Event("constraint", "", p, k)]

Iteration(n) ==
    IntegrationEvents \o CollisionEvents(n) \o PassEvents(1) \o PassEvents(2)
        \o <<Event("record", "", 0, 0)>>

IsPrefix(s, t) == Len(s) <= Len(t) /\ \A i \in 1..Len(s) : s[i] = t[i]

Detected == \E i \in 1..Len(log) : log[i].ev = "detect"

\* C2: within every step the phases happen in this order: all bodies are
\* integrated in registry order, then, only if collisions are enabled, the
\* collisions are detected and resolved once, then the solver runs exactly 2
\* passes over the constraints in list order, and only then the snapshot is
\* recorded, so that it holds the bodies' state after the constraint passes.
C2_PhaseOrder ==
    (op = "step" /\ log # <<>>) =>
        LET n == IF Detected THEN Len(collisions) ELSE 0
        IN  /\ IsPrefix(log, Iteration(n))
            /\ (log[Len(log)].ev = "record") =>
                  /\ log = Iteration(n)
                  /\ history # <<>>
                  /\ history[Len(history)] = Snapshot(bodies, Len(bodies))

C2_Recorded ==
    /\ op = "step" /\ log # <<>> /\ log[Len(log)].ev = "record"
    /\ enable_collisions /\ Len(collisions) = 1
    /\ Len(constraints) = 2 /\ Len(bodies) = 2
    /\ bodies # postInt

\* C3: applying a constraint that references an identifier absent from the
\* registry never raises and leaves every body of the registry unchanged.
C3_SoftSkip ==
    [][(pc = "constrain" /\ ~Resolves(constraints[ki], bodies))
          => (bodies' = bodies /\ err' = err /\ pc' # "idle")]_vars

C3_Skipped ==
    /\ op = "step" /\ err = "none" /\ log # <<>>
    /\ LET e == log[Len(log)]
       IN  /\ e.ev = "constraint"
           /\ constraints[e.k].kind = "revolute"
           /\ ~Resolves(constraints[e.k], bodies)
           /\ Referenced(constraints[e.k]) \cap Identifiers(bodies) # {}

UniqueIds(bs) ==
    \A i, j \in 1..Len(bs) : bs[i].identifier = bs[j].identifier => i = j

\* C4: adding a body whose identifier is already registered raises, and the
\* registry is afterwards what it was; any other add appends the body; the
\* registry never holds two bodies with one identifier.
C4_DuplicateAdd ==
    [][(op' = "add_body" /\ ~stepped')
          => /\ UniqueIds(bodies')
             /\ IF Contains(bodies, passed'.identifier)
                THEN err' = "ValueError" /\ bodies' = bodies
                ELSE err' = "none" /\ bodies' = Append(bodies, passed')]_vars

C4_Rejected ==
    /\ op = "add_body" /\ err = "ValueError"
    /\ Len(bodies) = 2
    /\ bodies[IndexOf(bodies, passed.identifier)].mass # passed.mass

\* C5: an engine with an unsupported method is constructed without error;
\* step raises when it integrates the first body of the first step, and no
\* body's position or velocity has been modified then.
C5_UnsupportedMethod ==
    (method \notin Supported) =>
        /\ op = "init" => err = "none"
        /\ op = "step" => bodies = callStart
        /\ pc = "integrate" => (bi = 1 /\ remaining = steps)
        /\ bodies # <<>> => pc \notin {"collide", "resolve", "constrain", "record"}
        /\ (Ended_step /\ steps >= 1 /\ bodies # <<>>)
              => /\ err = "ValueError"
                 /\ result = NoResult /\ history = <<>> /\ log = <<>>

C5_Raised ==
    /\ method \notin Supported
    /\ Ended_step /\ err = "ValueError"
    /\ Len(bodies) = 2 /\ bodies[1].mass # 0 /\ bodies[1].velocity # ZERO_VECTOR

\* C6: a body added with no force holds exactly one gravity force, whose
\* direction is the engine's gravity at the time of add_body whatever the
\* engine's gravity is now, and its acceleration is that vector in every
\* step; a body added with forces holds exactly those.
C6_GravitySnapshot ==
    /\ Len(added) = Len(bodies)
    /\ \A i \in 1..Len(bodies) :
          LET b == bodies[i]
              a == added[i]
          IN  /\ a.identifier = b.identifier
              /\ IF a.forces = <<>>
                 THEN /\ b.forces = <<GravityForce(a.gravity)>>
                      /\ b.mass # 0 => VDiv(net_force(b), b.mass) = a.gravity
                      /\ (Returned_step /\ method \in Supported /\ b.mass # 0
                            /\ constraints = <<>> /\ ~enable_collisions)
                           => b.velocity =
                                 VAdd(callStart[i].velocity,
                                      VTimes(steps, VMul(a.gravity, timestep)))
                 ELSE b.forces = a.forces

C6_GravityChanged ==
    /\ Returned_step /\ steps >= 1 /\ method \in Supported
    /\ constraints = <<>> /\ ~enable_collisions
    /\ \E i \in 1..Len(bodies) :
          /\ added[i].forces = <<>>
          /\ added[i].gravity # gravity
          /\ added[i].gravity # ZERO_VECTOR

\* The pairs of bodies of P, in registry order, whose centres are closer
\* than the sum of their radii.
Overlaps(P) ==
    {<<P[i].identifier, P[j].identifier>> :
        <<i, j>> \in {q \in (1..Len(P)) \X (1..Len(P)) :
                        /\ q[1] < q[2]
                        /\ magnitude(VSub(P[q[2]].position, P[q[1]].position))
                              < P[q[1]].radius + P[q[2]].radius}}

C7_Touching ==
    /\ op = "step" /\ Detected /\ Len(postInt) = 2
    /\ magnitude(VSub(postInt[2].position, postInt[1].position))
          = postInt[1].radius + postInt[2].radius
    /\ collisions = <<>>

\* The collision is one of two bodies of equal mass, both of restitution
\* 1, that move along the contact normal towards each other.
Elastic(P, c) ==
    LET b1 == P[IndexOf(P, c.body1_id)]
        b2 == P[IndexOf(P, c.body2_id)]
        n == c.contact_normal
    IN  /\ b1.mass = b2.mass /\ b1.mass > 0
        /\ b1.restitution = Q /\ b2.restitution = Q
        /\ VMul(n, dot(b1.velocity, n)) = b1.velocity
        /\ VMul(n, dot(b2.velocity, n)) = b2.velocity
        /\ dot(c.relative_velocity, n) < 0

VelocityOf(bs, id) == bs[IndexOf(bs, id)].velocity

\* C8: resolving such a collision exchanges the two velocities; with no net
\* force on either body and no constraint, the step in which they first
\* overlap ends with each body at the other's velocity from before the step.
C8_ElasticSwap ==
    (op = "step" /\ Detected /\ Len(collisions) = 1 /\ Elastic(postInt, collisions[1])) =>
        LET c == collisions[1]
            last == log[Len(log)].ev
        IN  /\ last = "resolve" =>
                  /\ VelocityOf(bodies, c.body1_id) = VelocityOf(postInt, c.body2_id)
                  /\ VelocityOf(bodies, c.body2_id) = VelocityOf(postInt, c.body1_id)
            /\ (/\ last = "record" /\ Len(history) = 1 /\ constraints = <<>>
                /\ \A i \in 1..Len(callStart) : net_force(callStart[i]) = ZERO_VECTOR)
                  => /\ VelocityOf(history[1], c.body1_id) = VelocityOf(callStart, c.body2_id)
                     /\ VelocityOf(history[1], c.body2_id) = VelocityOf(callStart, c.body1_id)

C8_Swapped ==
    /\ op = "step" /\ Detected /\ Len(collisions) = 1
    /\ Elastic(postInt, collisions[1])
    /\ log[Len(log)].ev = "record" /\ Len(history) = 1 /\ constraints = <<>>
    /\ gravity = ZERO_VECTOR
    /\ VelocityOf(callStart, collisions[1].body1_id) = Vector3(Q, 0, 0)
    /\ VelocityOf(callStart, collisions[1].body2_id) = Vector3(-Q, 0, 0)
    /\ VelocityOf(history[1], collisions[1].body1_id) = Vector3(-Q, 0, 0)

IsSorted(items) ==
    \A i, j \in 1..Len(items) :
        i < j => Rank(items[i].identifier) < Rank(items[j].identifier)

C10_PositiveMass == \A i \in 1..Len(bodies) : bodies[i].mass > 0

(***************************************************************************)
(* create_body on its own: every call is made on a fresh engine.           *)
(***************************************************************************)
\* The longest list of force descriptors given to create_body.
MaxDescriptors == 2

\* One descriptor per type the specification names, one of an unknown type,
\* and one without the key "type".
Descriptors ==
    { [type |-> "constant", vector |-> <<0, 12 * Q, 0>>],
      [type |-> "gravity"],
      [type |-> "drag", coefficient |-> R(1, 10)],
      [type |-> "spring", stiffness |-> 4 * Q],
      [type |-> "friction"],
      [type |-> "custom"],
      [type |-> "magnet"],
      [vector |-> <<Q, 0>>] }

DescriptorLists == UNION {[1..n -> Descriptors] : n \in 0..MaxDescriptors}

InitCreate == Init /\ method = "rk4" /\ ~enable_collisions /\ constraints = <<>>

\* One call per engine: the call does not depend on an earlier one.
NextCreate ==
    \/ op = "init" /\ \E args \in CreateArgs, forces \in ForceDescriptors :
                          create("a", args, forces)
    \/ op = "init" /\ \E identifier \in Ids, mass \in {R(3, 2), Q}, radius \in {Q, R(1, 2)},
          restitution \in {R(1, 2), Q}, friction \in {0, R(3, 10)},
          forces \in DescriptorLists :
          create_call(identifier, mass, <<0, 0, 0>>, <<2 * Q, 6 * Q, 0>>, forces,
                      radius, restitution, friction)

SpecCreate == InitCreate /\ [][NextCreate]_vars

\* The types of force descriptor the specification names.
SixTypes == {"constant", "gravity", "drag", "spring", "friction", "custom"}

TypeOf(force_data) == Get(force_data, "type", "constant")

\* The arguments are a valid descriptor of a body.
ValidDescriptor(call) ==
    /\ call.identifier # "" /\ call.mass > 0
    /\ call.radius > 0 /\ call.restitution \in 0..Q /\ call.friction >= 0
    /\ \A k \in 1..Len(call.forces) : TypeOf(call.forces[k]) \in SixTypes

\* C11 (as stated): create_body called with a valid descriptor returns a body
\* without raising, carrying the given identifier, mass, radius, restitution
\* and friction, with exactly one force per descriptor in descriptor order.
C11_CreateReturns ==
    (op = "create_body" /\ ValidDescriptor(asked)) =>
        /\ err = "none"
        /\ created.identifier = asked.identifier /\ created.mass = asked.mass
        /\ created.radius = asked.radius /\ created.restitution = asked.restitution
        /\ "friction" \in DOMAIN created /\ created.friction = asked.friction
        /\ Len(created.forces) = Len(asked.forces)
        /\ \A k \in 1..Len(asked.forces) :
              created.forces[k] = ForceOf(asked.forces[k]).force

\* C12 (as stated): a force descriptor is accepted for each of the six types
\* constant, gravity, drag, spring, friction and custom, and a descriptor of
\* any other type makes the construction fail.
C12_SixTypes ==
    op = "create_body" =>
        /\ \A k \in 1..Len(asked.forces) :
              TypeOf(asked.forces[k]) \in SixTypes
                  <=> ForceOf(asked.forces[k]).err = "none"
        /\ (\E k \in 1..Len(asked.forces) : TypeOf(asked.forces[k]) \notin SixTypes)
              => err # "none"

(***************************************************************************)
(* Two bodies 5.0 apart under one distance constraint of target 2.0 and    *)
(* stiffness 1.0: the engine after its two calls of add_body, then one     *)
(* call of step.                                                           *)
(***************************************************************************)
\* The steps asked of the engine.
MaxDistanceSteps == 8

\* A body as add_body registers it: no force given, so gravity is added.
Registered(id, mass, position, velocity, g) ==
    AutoGravity(BodyInit([identifier |-> id, mass |-> mass, position |-> position,
                          velocity |-> velocity]).body, g)

\* The second body's position: 5.0 from the origin, along x or along (3, 4).
FiveApart == {Vector3(5 * Q, 0, 0), Vector3(3 * Q, 4 * Q, 0)}

DistanceMasses == {R(1, 2), Q, 3 * Q}

InitDistance ==
    /\ method \in Supported
    /\ timestep \in Timesteps
    /\ gravity \in Gravities
    /\ enable_collisions = FALSE
    /\ constraints = <<DistanceConstraint("a", "b", 2 * Q, Q)>>
    /\ \E m1 \in DistanceMasses, m2 \in DistanceMasses, p2 \in FiveApart,
          v \in {ZERO_VECTOR, Vector3(Q, 0, 0)} :
          bodies = <<Registered("a", m1, ZERO_VECTOR, v, gravity),
                     Registered("b", m2, p2, v, gravity)>>
    /\ added = <<[identifier |-> "a", forces |-> <<>>, gravity |-> gravity],
                 [identifier |-> "b", forces |-> <<>>, gravity |-> gravity]>>
    /\ passed = bodies[2] /\ created = NoBody /\ asked = NoCall /\ kept = NothingKept
    /\ op = "add_body" /\ err = "none" /\ stepped = FALSE /\ done = 0
    /\ pc = "idle"
    /\ steps = 0 /\ remaining = 0 /\ bi = 0
    /\ collisions = <<>> /\ ci = 0 /\ pass = 0 /\ ki = 0
    /\ history = <<>> /\ energy_history = <<>> /\ total_collision_count = 0
    /\ result = NoResult
    /\ log = <<>> /\ callStart = <<>> /\ postInt = <<>> /\ frame = NoFrame

\* The one call step(MaxDistanceSteps).
step_distance == ~stepped /\ StepEnter(MaxDistanceSteps)

NextDistance ==
    \/ step_distance
    \/ step_iter
    \/ integrate_body
    \/ detect
    \/ constrain
    \/ record
    \/ step_return

SpecDistance == InitDistance /\ [][NextDistance]_vars

\* 1e-3, at the resolution 1/Q.
Tolerance == R(1, 1000)

DistanceIn(snapshot) == magnitude(VSub(snapshot[2].position, snapshot[1].position))

Within(snapshot) == Abs(DistanceIn(snapshot) - 2 * Q) <= Tolerance

MaxDragSteps == 2

DragTimesteps == {R(1, 10), 3 * Q}

DragCoefficients == {R(1, 10), Q}

DragMasses == {Q, 2 * Q}

DragVelocities == {Vector3(R(12, 10), 0, 0), Vector3(0, -R(1, 2), 0)}

\* DragForce(coefficient=c): reference_area and fluid_density at their defaults.
DefaultDrag(c) == DragForce(c, Q, R(1225, 1000))

InitDrag ==
    /\ method \in Supported
    /\ timestep \in DragTimesteps
    /\ gravity = Vector3(0, -Q, 0)
    /\ enable_collisions = FALSE
    /\ constraints = <<>>
    /\ \E m \in DragMasses, c \in DragCoefficients, v \in DragVelocities :
          /\ bodies = <<BodyInit([identifier |-> "a", mass |-> m,
                                  position |-> ZERO_VECTOR, velocity |-> v,
                                  forces |-> <<DefaultDrag(c)>>]).body>>
          /\ added = <<[identifier |-> "a", forces |-> <<DefaultDrag(c)>>,
                        gravity |-> gravity]>>
    /\ passed = bodies[1] /\ created = NoBody /\ asked = NoCall /\ kept = NothingKept
    /\ op = "add_body" /\ err = "none" /\ stepped = FALSE /\ done = 0
    /\ pc = "idle"
    /\ steps = 0 /\ remaining = 0 /\ bi = 0
    /\ collisions = <<>> /\ ci = 0 /\ pass = 0 /\ ki = 0
    /\ history = <<>> /\ energy_history = <<>> /\ total_collision_count = 0
    /\ result = NoResult
    /\ log = <<>> /\ callStart = <<>> /\ postInt = <<>> /\ frame = NoFrame

\* The one call step(N).
step_drag(N) == ~stepped /\ StepEnter(N)

NextDrag ==
    \/ \E N \in 1..MaxDragSteps : step_drag(N)
    \/ step_iter
    \/ integrate_body
    \/ detect
    \/ record
    \/ step_return

SpecDrag == InitDrag /\ [][NextDrag]_vars

\* |v|^2, exactly: the kinetic energy 1/2 m |v|^2 up to the constant m/2.
SpeedSq(v) == v[1] * v[1] + v[2] * v[2] + v[3] * v[3]

\* The velocity before step n of the call: at the call, or in snapshot n - 1.
VelocityBefore(n) ==
    IF n = 1 THEN callStart[1].velocity ELSE history[n - 1][1].velocity

\* C14 (as stated): for a single body whose only force is drag and whose
\* velocity is nonzero, the kinetic energy never increases from one step to
\* the next, for every positive timestep, coefficient and mass and for both
\* methods.
C14_KineticNeverIncreases ==
    \A n \in 1..Len(history) :
        SpeedSq(history[n][1].velocity) <= SpeedSq(VelocityBefore(n))

\* C15 (as stated): while one body is being integrated, every other body of
\* the registry is at its position and velocity of the start of the step
\* (checked in the first iteration of a call, whose start is the call).
C15_OthersAtStepStart ==
    (op = "step" /\ pc = "integrate" /\ remaining = steps) =>
        \A j \in 1..Len(bodies) :
            j # bi => /\ bodies[j].position = callStart[j].position
                      /\ bodies[j].velocity = callStart[j].velocity

(***************************************************************************)
(* Body.net_force_for_state and rk4_step followed statement by statement,  *)
(* on the one body of an engine: a direct call of net_force_for_state, or  *)
(* the integration of the body by step with method "rk4".                  *)
(***************************************************************************)
ProbeForces ==
    { <<SpringForce(ZERO_VECTOR, 4 * Q, R(1, 2))>>,
      <<DefaultDrag(Q)>>,
      <<CustomForce("damp")>>,
      <<CustomForce("raise")>>,
      <<ConstantForce(Vector3(0, Q, 0)), CustomForce("raise")>> }

ProbeVectors == {Vector3(Q, 0, 0), Vector3(0, -Q, Q)}

InitNetForce ==
    /\ method = "rk4"
    /\ timestep \in Timesteps
    /\ gravity = Vector3(0, -Q, 0)
    /\ enable_collisions = FALSE
    /\ constraints = <<>>
    /\ \E m \in {Q, 2 * Q}, v \in ProbeVectors, forces \in ProbeForces :
          /\ bodies = <<BodyInit([identifier |-> "a", mass |-> m,
                                  position |-> Vector3(Q, 0, 0), velocity |-> v,
                                  forces |-> forces]).body>>
          /\ added = <<[identifier |-> "a", forces |-> forces, gravity |-> gravity]>>
    /\ passed = bodies[1] /\ created = NoBody /\ asked = NoCall /\ kept = NothingKept
    /\ op = "add_body" /\ err = "none" /\ stepped = FALSE /\ done = 0
    /\ pc = "idle"
    /\ steps = 0 /\ remaining = 0 /\ bi = 0
    /\ collisions = <<>> /\ ci = 0 /\ pass = 0 /\ ki = 0
    /\ history = <<>> /\ energy_history = <<>> /\ total_collision_count = 0
    /\ result = NoResult
    /\ log = <<>> /\ callStart = <<>> /\ postInt = <<>> /\ frame = NoFrame

\* What the statements of net_force_for_state and rk4_step leave alone.
untouched ==
    <<method, timestep, gravity, enable_collisions, constraints, caller, added, stepped,
      done, locals, result>>

\* The frame of a call: rk4_step's parameters position and velocity and its
\* k*_v so far; net_force_for_state's parameters and locals; what the try
\* block produced; and the body's state when the call began.
Frame(call, body, position, velocity) ==
    [call |-> call, stage |-> 1, k_v |-> <<>>,
     position |-> body.position, velocity |-> body.velocity,
     arg_position |-> position, arg_velocity |-> velocity,
     original_position |-> ZERO_VECTOR, original_velocity |-> ZERO_VECTOR,
     pending |-> NoResult,
     entry_position |-> body.position, entry_velocity |-> body.velocity]

\* body.net_force_for_state(p, v), called by a caller of the body.
nf_direct(p, v) ==
    /\ pc = "idle" /\ op = "add_body"
    /\ op' = "net_force_for_state" /\ err' = "none"
    /\ frame' = Frame("direct", bodies[1], p, v)
    /\ pc' = "nf_enter"
    /\ UNCHANGED <<bodies, untouched>>

\* rk4_step(self.timestep, body.position, body.velocity, lambda ...): the
\* first stage evaluates dv(position, velocity).
rk4_enter ==
    /\ pc = "idle" /\ op = "add_body"
    /\ op' = "rk4_step" /\ err' = "none"
    /\ frame' = Frame("rk4", bodies[1], bodies[1].position, bodies[1].velocity)
    /\ pc' = "nf_enter"
    /\ UNCHANGED <<bodies, untouched>>

\* original_position = self.position; original_velocity = self.velocity
nf_enter ==
    /\ pc = "nf_enter"
    /\ frame' = [frame EXCEPT !.original_position = bodies[1].position,
                              !.original_velocity = bodies[1].velocity]
    /\ pc' = "nf_try"
    /\ UNCHANGED <<bodies, op, err, untouched>>

\* self.position = position; self.velocity = velocity
nf_try ==
    /\ pc = "nf_try"
    /\ bodies' = [bodies EXCEPT ![1].position = frame.arg_position,
                                ![1].velocity = frame.arg_velocity]
    /\ pc' = "nf_compute"
    /\ UNCHANGED <<frame, op, err, untouched>>

\* return self.net_force(): the value is held, or the exception is in flight.
nf_compute ==
    /\ pc = "nf_compute"
    /\ frame' = [frame EXCEPT !.pending = NetForceTry(bodies[1])]
    /\ pc' = "nf_finally"
    /\ UNCHANGED <<bodies, op, err, untouched>>

\* The state is put back only when net_force returned.
Finally_OnlyOnReturn(body, f) ==
    IF f.pending.err = "none"
    THEN [body EXCEPT !.position = f.original_position,
                      !.velocity = f.original_velocity]
    ELSE body

\* finally: self.position = original_position; self.velocity = original_velocity
Finally(body, f) ==
    [body EXCEPT !.position = f.original_position, !.velocity = f.original_velocity]

\* k1_p .. k4_p of rk4_step, from the k*_v of the earlier stages.
KP(f, stage, dt) ==
    CASE stage = 1 -> f.velocity
      [] stage \in {2, 3} -> VAdd(f.velocity, VMul(f.k_v[stage - 1], RDiv(dt, 2)))
      [] stage = 4 -> VAdd(f.velocity, VMul(f.k_v[3], dt))

\* The arguments of dv in stages 2, 3 and 4.
StagePosition(f, stage, dt) ==
    VAdd(f.position, VMul(KP(f, stage - 1, dt), IF stage = 4 THEN dt ELSE RDiv(dt, 2)))

StageVelocity(f, stage, dt) == KP(f, stage, dt)

\* The finally block runs; then the exception leaves rk4_step and step, or
\* the value goes to the caller: the direct caller, or rk4_step, which
\* divides it by the mass and goes on to its next stage.
nf_finally ==
    LET body == Finally(bodies[1], frame)
        f == [frame EXCEPT !.k_v = Append(@, VDiv(frame.pending.value, body.mass))]
    IN  /\ pc = "nf_finally"
        /\ bodies' = [bodies EXCEPT ![1] = body]
        /\ IF frame.pending.err # "none"
           THEN err' = frame.pending.err /\ pc' = "idle" /\ frame' = frame
           ELSE IF frame.call = "direct"
           THEN err' = err /\ pc' = "idle" /\ frame' = frame
           ELSE IF frame.stage = 4
           THEN err' = err /\ pc' = "rk4_write" /\ frame' = f
           ELSE /\ err' = err /\ pc' = "nf_enter"
                /\ frame' =
                      [f EXCEPT !.stage = @ + 1,
                                !.arg_position = StagePosition(f, frame.stage + 1, timestep),
                                !.arg_velocity = StageVelocity(f, frame.stage + 1, timestep)]
        /\ UNCHANGED <<op, untouched>>

\* rk4_step returns new_position, new_velocity and step writes them:
\* body.position = new_position; body.velocity = new_velocity
rk4_write ==
    LET sixth == RDiv(timestep, 6)
        kv == frame.k_v
        new_velocity ==
            VAdd(frame.velocity,
                 VMul(VAdd(VAdd(kv[1], VTimes(2, kv[2])), VAdd(VTimes(2, kv[3]), kv[4])),
                      sixth))
        new_position ==
            VAdd(frame.position,
                 VMul(VAdd(VAdd(KP(frame, 1, timestep), VTimes(2, KP(frame, 2, timestep))),
                           VAdd(VTimes(2, KP(frame, 3, timestep)), KP(frame, 4, timestep))),
                      sixth))
    IN  /\ pc = "rk4_write"
        /\ bodies' = [bodies EXCEPT ![1].position = new_position,
                                    ![1].velocity = new_velocity]
        /\ pc' = "idle"
        /\ UNCHANGED <<frame, op, err, untouched>>

NextNetForce ==
    \/ \E p \in ProbeVectors, v \in ProbeVectors : nf_direct(p, v)
    \/ rk4_enter
    \/ nf_enter
    \/ nf_try
    \/ nf_compute
    \/ nf_finally
    \/ rk4_write

SpecNetForce == InitNetForce /\ [][NextNetForce]_vars

\* The body holds the position and velocity it had when the call began.
AtEntryState ==
    /\ bodies[1].position = frame.entry_position
    /\ bodies[1].velocity = frame.entry_velocity

\* C16: net_force_for_state(p, v) leaves the body's position and velocity as
\* they were before the call, when it returns and when a force raises; so
\* between the stages of rk4_step and after the fourth the body holds its
\* step-start state, until step writes the integrated state, which is the
\* one rk4_step computes from the step-start state.
C16_StateRestored ==
    (op \in {"net_force_for_state", "rk4_step"}) =>
        /\ pc \in {"nf_enter", "nf_try", "rk4_write"} => AtEntryState
        /\ (pc = "idle" /\ (frame.call = "direct" \/ err # "none")) => AtEntryState
        /\ (pc = "idle" /\ frame.call = "rk4" /\ err = "none") =>
              LET start == [bodies[1] EXCEPT !.position = frame.entry_position,
                                             !.velocity = frame.entry_velocity]
                  new == rk4_step(timestep, start.position, start.velocity, start)
              IN  /\ bodies[1].position = new.position
                  /\ bodies[1].velocity = new.velocity

C16_RaisedRestored ==
    /\ op = "net_force_for_state" /\ pc = "idle" /\ err # "none"
    /\ frame.arg_position # frame.entry_position
    /\ frame.arg_velocity # frame.entry_velocity
    /\ Len(bodies[1].forces) = 2

(***************************************************************************)
(* Two or three bodies that overlap, added to an engine, then stepped.     *)
(***************************************************************************)
\* The steps asked of the engine.
MaxCollideSteps == 2

\* Body(...) with a zero constant force, so that add_body adds no gravity.
Ball(id, mass, position, velocity, restitution) ==
    BodyInit([identifier |-> id, mass |-> mass, position |-> position,
              velocity |-> velocity, radius |-> R(1, 2), restitution |-> restitution,
              forces |-> <<ConstantForce(ZERO_VECTOR)>>]).body

AlongX == {Vector3(Q, 0, 0), ZERO_VECTOR, Vector3(-Q, 0, 0)}

\* "a" at the origin; "b" 0.6 or 0.5 from it; with "c", 0.8 beyond "b" and
\* moving towards it, or without it.
CollideRegistries ==
    { <<Ball("a", m1, ZERO_VECTOR, v1, e1), Ball("b", m2, p2, v2, Q)>> \o third :
        <<m1, v1, e1, m2, p2, v2, third>> \in
            {Q, 3 * Q} \X AlongX \X {R(1, 2), Q} \X {Q, 2 * Q}
            \X {Vector3(R(6, 10), 0, 0), Vector3(R(3, 10), R(4, 10), 0)} \X AlongX
            \X {<<>>, <<Ball("c", Q, Vector3(R(14, 10), 0, 0), Vector3(-Q, 0, 0),
                             R(1, 2))>>} }

InitCollide ==
    /\ method = "euler"
    /\ timestep \in Timesteps
    /\ gravity = Vector3(0, -Q, 0)
    /\ enable_collisions \in BOOLEAN
    /\ constraints = <<>>
    /\ bodies \in CollideRegistries
    /\ added = [i \in 1..Len(bodies) |->
                   [identifier |-> bodies[i].identifier, forces |-> bodies[i].forces,
                    gravity |-> gravity]]
    /\ passed = bodies[Len(bodies)] /\ created = NoBody /\ asked = NoCall /\ kept = NothingKept
    /\ op = "add_body" /\ err = "none" /\ stepped = FALSE /\ done = 0
    /\ pc = "idle"
    /\ steps = 0 /\ remaining = 0 /\ bi = 0
    /\ collisions = <<>> /\ ci = 0 /\ pass = 0 /\ ki = 0
    /\ history = <<>> /\ energy_history = <<>> /\ total_collision_count = 0
    /\ result = NoResult
    /\ log = <<>> /\ callStart = <<>> /\ postInt = <<>> /\ frame = NoFrame

\* The one call step(N).
step_collide(N) == ~stepped /\ StepEnter(N)

NextCollide ==
    \/ \E N \in 1..MaxCollideSteps : step_collide(N)
    \/ step_iter
    \/ integrate_body
    \/ detect
    \/ resolve
    \/ record
    \/ step_return

SpecCollide == InitCollide /\ [][NextCollide]_vars

\* C17: resolving a collision whose recorded relative velocity has a
\* positive component along the normal changes no body; one with vn <= 0 is
\* not skipped: with vn < 0 the impulse pushes the first body against the
\* normal and the second along it, with vn = 0 the velocities stay, and in
\* both cases the positional correction moves the first body against the
\* normal and the second along it (a correction below the resolution 1/Q,
\* which a penetration between the slop and twice the slop can give, moves
\* neither).
C17_SeparatingSkipped ==
    [][pc = "resolve" =>
          LET c == collisions[ci]
              i1 == IndexOf(bodies, c.body1_id)
              i2 == IndexOf(bodies, c.body2_id)
              n == c.contact_normal
              vn == NormalVelocity(c)
              dv1 == dot(VSub(bodies'[i1].velocity, bodies[i1].velocity), n)
              dv2 == dot(VSub(bodies'[i2].velocity, bodies[i2].velocity), n)
              dp1 == dot(VSub(bodies'[i1].position, bodies[i1].position), n)
              dp2 == dot(VSub(bodies'[i2].position, bodies[i2].position), n)
          IN  /\ err' = "none"
              /\ IF vn > 0 THEN bodies' = bodies
                 ELSE /\ vn < 0 => (dv1 < 0 /\ dv2 > 0)
                      /\ vn = 0 => (dv1 = 0 /\ dv2 = 0)
                      /\ dp1 <= 0 /\ dp2 >= 0
                      /\ c.penetration_depth > 2 * slop => (dp1 < 0 /\ dp2 > 0)]_vars

C17_RestingCorrected ==
    /\ op = "step" /\ Detected /\ Len(collisions) = 1
    /\ log[Len(log)].ev = "resolve"
    /\ NormalVelocity(collisions[1]) = 0
    /\ bodies[1].position # postInt[1].position
    /\ bodies[1].velocity = postInt[1].velocity

\* A separating pair is reached and resolving it changed nothing.
C17_SeparatingReached ==
    /\ op = "step" /\ Detected /\ Len(collisions) = 1
    /\ log[Len(log)].ev = "resolve"
    /\ NormalVelocity(collisions[1]) > 0
    /\ bodies = postInt

\* n(n-1)/2, the pairs among n bodies.
Pairs(n) == (n * (n - 1)) \div 2

\* The steps of the running call that have begun: remaining falls when the
\* snapshot of a step is recorded.
StepsBegun == steps - remaining + (IF pc \in {"idle", "loop"} THEN 0 ELSE 1)

\* C18: the collision count of a result is the sum over the steps of the
\* number of overlapping pairs found in that step: step starts it at 0, the
\* detection of each step adds the number of pairs that overlap then, whether
\* they overlapped before or are separating, nothing else changes it, and the
\* result carries it; it is 0 with collisions disabled and never exceeds
\* N * n(n-1)/2.
C18_CountsEveryPair ==
    [][/\ (pc = "idle" /\ pc' # "idle") => total_collision_count' = 0
       /\ (pc = "collide" /\ enable_collisions) =>
              total_collision_count' = total_collision_count + Cardinality(Overlaps(bodies))
       /\ (pc # "idle" /\ ~(pc = "collide" /\ enable_collisions)) =>
              total_collision_count' = total_collision_count
       /\ ~enable_collisions => total_collision_count' = 0
       /\ total_collision_count' <= StepsBegun' * Pairs(Len(bodies))
       /\ (pc # "idle" /\ pc' = "idle") =>
              /\ err' = "none"
              /\ result'.collision_count = total_collision_count
              /\ result'.collision_count <= steps * Pairs(Len(bodies))]_vars

C18_SeparatingCountedAgain ==
    /\ Returned_step /\ steps = 2 /\ Len(bodies) = 2
    /\ result.collision_count = 2
    /\ Len(collisions) = 1 /\ NormalVelocity(collisions[1]) > 0

\* Three bodies, two pairs overlapping in each of two steps.
C18_FourCounted ==
    Returned_step /\ steps = 2 /\ Len(bodies) = 3 /\ result.collision_count = 4

\* The sum over the bodies P[k], k in S, of mass times the vector named by
\* field, as exact integers (in units of 1/Q^2).
RECURSIVE Weighted(_, _, _)
Weighted(P, S, field) ==
    IF S = {} THEN <<0, 0, 0>>
    ELSE LET k == CHOOSE x \in S : TRUE
             w == P[k][field]
         IN  VAdd(<<P[k].mass * w[1], P[k].mass * w[2], P[k].mass * w[3]>>,
                  Weighted(P, S \ {k}, field))

\* The sum of the masses of the bodies P[k], k in S.
RECURSIVE MassOf(_, _)
MassOf(P, S) ==
    IF S = {} THEN 0
    ELSE LET k == CHOOSE x \in S : TRUE IN P[k].mass + MassOf(P, S \ {k})

\* Two weighted sums differ by no more than the rounding of `divisions`
\* divisions by each body's mass to the resolution 1/Q.
SameUpToRounding(a, b, masses, divisions) ==
    \A x \in 1..3 : 2 * Abs(a[x] - b[x]) <= divisions * masses

\* C20: resolving a collision that is not skipped leaves m1 v1 + m2 v2 of its
\* two bodies unchanged, and m1 p1 + m2 p2 too; and with no constraints the
\* momentum of all the bodies is the same after the collision phase of a step
\* as before it.
C20_MomentumConserved ==
    [][pc = "resolve" =>
          LET c == collisions[ci]
              pair == {IndexOf(bodies, c.body1_id), IndexOf(bodies, c.body2_id)}
              all == DOMAIN bodies
          IN  /\ NormalVelocity(c) <= 0 =>
                    /\ SameUpToRounding(Weighted(bodies', pair, "velocity"),
                                        Weighted(bodies, pair, "velocity"),
                                        MassOf(bodies, pair), 1)
                    /\ SameUpToRounding(Weighted(bodies', pair, "position"),
                                        Weighted(bodies, pair, "position"),
                                        MassOf(bodies, pair), 1)
              /\ pc' # "resolve" =>
                    SameUpToRounding(Weighted(bodies', all, "velocity"),
                                     Weighted(postInt, all, "velocity"),
                                     MassOf(bodies, all), Len(collisions))]_vars

C20_TwoImpulses ==
    /\ op = "step" /\ Detected /\ pc = "record"
    /\ Len(bodies) = 3 /\ Len(collisions) = 2
    /\ bodies[1].mass # bodies[2].mass
    /\ \A k \in 1..3 : bodies[k].velocity # postInt[k].velocity
    /\ bodies[1].position # postInt[1].position

(***************************************************************************)
(* Two bodies joined by one revolute joint, collisions disabled.           *)
(***************************************************************************)
\* The steps asked of the engine.
MaxJointSteps == 2

JointAnchors == {ZERO_VECTOR, Vector3(Q, Q, 0), Vector3(4 * Q, 0, 0)}

JointRegistries ==
    { <<Ball("a", m1, p1, v1, Q), Ball("b", m2, p2, ZERO_VECTOR, Q)>> :
        <<m1, p1, v1, m2, p2>> \in
            {Q, 3 * Q} \X {ZERO_VECTOR, Vector3(-Q, 0, 0)} \X {ZERO_VECTOR, Vector3(Q, 0, 0)}
            \X {Q, 2 * Q} \X {Vector3(2 * Q, 0, 0), Vector3(0, 2 * Q, 0)} }

InitJoint ==
    /\ method = "euler"
    /\ timestep \in Timesteps
    /\ gravity = Vector3(0, -Q, 0)
    /\ enable_collisions = FALSE
    /\ constraints \in {<<RevoluteJoint("a", "b", anchor)>> : anchor \in JointAnchors}
    /\ bodies \in JointRegistries
    /\ added = [i \in 1..Len(bodies) |->
                   [identifier |-> bodies[i].identifier, forces |-> bodies[i].forces,
                    gravity |-> gravity]]
    /\ passed = bodies[Len(bodies)] /\ created = NoBody /\ asked = NoCall /\ kept = NothingKept
    /\ op = "add_body" /\ err = "none" /\ stepped = FALSE /\ done = 0
    /\ pc = "idle"
    /\ steps = 0 /\ remaining = 0 /\ bi = 0
    /\ collisions = <<>> /\ ci = 0 /\ pass = 0 /\ ki = 0
    /\ history = <<>> /\ energy_history = <<>> /\ total_collision_count = 0
    /\ result = NoResult
    /\ log = <<>> /\ callStart = <<>> /\ postInt = <<>> /\ frame = NoFrame

\* The one call step(N).
step_joint(N) == ~stepped /\ StepEnter(N)

NextJoint ==
    \/ \E N \in 1..MaxJointSteps : step_joint(N)
    \/ step_iter
    \/ integrate_body
    \/ detect
    \/ constrain
    \/ record
    \/ step_return

SpecJoint == InitJoint /\ [][NextJoint]_vars

\* C19: one application of a revolute joint moves the centre of mass of its
\* two bodies to the anchor: afterwards (m1 p1 + m2 p2) / (m1 + m2) is the
\* anchor, here to within 0.01 in every coordinate.
C19_CentreAtAnchor ==
    [][pc = "constrain" =>
          LET anchor == constraints[ki].anchor_point
              total_mass == MassOf(bodies, {1, 2})
              weighted == Weighted(bodies', {1, 2}, "position")
          IN  \A x \in 1..3 :
                  100 * Abs(weighted[x] - total_mass * anchor[x]) <= total_mass * Q]_vars

\* The registry indices of the two bodies of a collision.
PairOf(P, collision) ==
    <<IndexOf(P, collision.body1_id), IndexOf(P, collision.body2_id)>>

\* What resolving collision k of the step would do to the pair as it was when
\* the collisions were detected.
AtDetection(k) ==
    LET q == PairOf(postInt, collisions[k])
    IN  resolve_collision(collisions[k], postInt[q[1]], postInt[q[2]], timestep)

\* C21: every collision of a step is resolved with the normal, penetration
\* depth and relative velocity recorded when it was detected: the record is
\* that of the pair's state after integration, resolving other collisions
\* does not change it, and the change it makes to each of its bodies'
\* velocity and position is the change it would have made to the pair as
\* detected, whatever earlier resolutions did to a shared body; the
\* collisions are resolved in detection order, pairs (i, j) with i < j in
\* registry order.
C21_ResolvedAsRecorded ==
    [][pc = "resolve" =>
          LET c == collisions[ci]
              q == PairOf(bodies, c)
              ref == AtDetection(ci)
          IN  /\ collisions' = collisions
              /\ c = detect_sphere_collision(postInt[q[1]], postInt[q[2]])
              /\ q[1] < q[2]
              /\ \A k \in 1..(ci - 1) :
                    LET b == PairOf(bodies, collisions[k])
                    IN  b[1] < q[1] \/ (b[1] = q[1] /\ b[2] < q[2])
              /\ ci' = ci + 1
              /\ \A x \in 1..2 :
                    LET now == bodies[q[x]]
                        then == postInt[q[x]]
                        new == bodies'[q[x]]
                        old == IF x = 1 THEN ref.body1 ELSE ref.body2
                    IN  /\ VSub(new.velocity, now.velocity) = VSub(old.velocity, then.velocity)
                        /\ VSub(new.position, now.position) = VSub(old.position, then.position)]_vars

\* "b" took part in two collisions of one step, both resolved; the first
\* changed b's velocity, so that the second, detected afresh, would have
\* changed "c" differently.
C21_SharedBodyStale ==
    /\ op = "step" /\ pc = "record" /\ Detected
    /\ Len(bodies) = 3 /\ Len(collisions) = 2
    /\ PairOf(bodies, collisions[1]) = <<1, 2>> /\ PairOf(bodies, collisions[2]) = <<2, 3>>
    /\ NormalVelocity(collisions[1]) < 0 /\ NormalVelocity(collisions[2]) < 0
    /\ LET mid == AtDetection(1).body2
           fresh == detect_sphere_collision(mid, postInt[3])
       IN  /\ mid.velocity # postInt[2].velocity
           /\ fresh # NoCollision
           /\ bodies[3] = AtDetection(2).body2
           /\ bodies[3] # resolve_collision(fresh, mid, postInt[3], timestep).body2

(***************************************************************************)
(* A caller that steps an engine twice and keeps the results, then builds  *)
(* a second engine as the first was and steps it once.                     *)
(***************************************************************************)
\* The steps asked in one of the two calls.
MaxComposeSteps == 2

\* "a" at the origin and "b" beside it, overlapping it (radius 1.0 each) or
\* not; add_body has given both the engine's gravity.
ComposeRegistries(g) ==
    { <<Registered("a", m1, ZERO_VECTOR, v1, g), Registered("b", Q, p2, v2, g)>> :
        <<m1, v1, p2, v2>> \in
            {Q, 2 * Q} \X {Vector3(Q, 0, 0), ZERO_VECTOR}
            \X {Vector3(R(3, 2), 0, 0), Vector3(R(9, 10), R(12, 10), 0), Vector3(3 * Q, 0, 0)}
            \X {Vector3(-Q, 0, 0), ZERO_VECTOR} }

InitCompose ==
    /\ method \in Supported
    /\ timestep \in Timesteps
    /\ gravity = Vector3(0, -Q, 0)
    /\ enable_collisions \in BOOLEAN
    /\ constraints \in {<<>>, <<DistanceConstraint("a", "b", 2 * Q, R(1, 2))>>}
    /\ bodies \in ComposeRegistries(gravity)
    /\ added = <<[identifier |-> "a", forces |-> <<>>, gravity |-> gravity],
                 [identifier |-> "b", forces |-> <<>>, gravity |-> gravity]>>
    /\ passed = bodies[2] /\ created = NoBody /\ asked = NoCall
    /\ kept = [origin |-> bodies, calls |-> <<>>, engine |-> 1]
    /\ op = "add_body" /\ err = "none" /\ stepped = FALSE /\ done = 0
    /\ pc = "idle"
    /\ steps = 0 /\ remaining = 0 /\ bi = 0
    /\ collisions = <<>> /\ ci = 0 /\ pass = 0 /\ ki = 0
    /\ history = <<>> /\ energy_history = <<>> /\ total_collision_count = 0
    /\ result = NoResult
    /\ log = <<>> /\ callStart = <<>> /\ postInt = <<>> /\ frame = NoFrame

\* step(N) on the first engine: the first call, or the second once the
\* result of the first is kept.
step_part(N) ==
    /\ kept.engine = 1 /\ Len(kept.calls) < 2
    /\ op \in {"add_body", "keep"}
    /\ StepEnter(N)

\* The caller keeps what step returned, and a copy of the bodies as they are.
keep ==
    /\ Returned_step
    /\ kept' = [kept EXCEPT !.calls = Append(@, [steps |-> steps, result |-> result,
                                                 bodies |-> bodies])]
    /\ op' = "keep"
    /\ UNCHANGED <<gravity, config, bodies, passed, created, asked, added, err, stepped,
                   done, pc, locals, result>>

\* Simulation(...) with the same settings and add_body of bodies equal to
\* those the first engine was given.
restart ==
    /\ kept.engine = 1 /\ Len(kept.calls) = 2 /\ op = "keep"
    /\ bodies' = kept.origin
    /\ kept' = [kept EXCEPT !.engine = 2]
    /\ passed' = kept.origin[Len(kept.origin)]
    /\ op' = "add_body" /\ stepped' = FALSE /\ done' = 0
    /\ result' = NoResult
    /\ UNCHANGED <<gravity, config, created, asked, added, err, pc, locals>>

\* step(N + M) on the second engine.
step_whole ==
    /\ kept.engine = 2 /\ op = "add_body"
    /\ StepEnter(kept.calls[1].steps + kept.calls[2].steps)

NextCompose ==
    \/ \E N \in 1..MaxComposeSteps : step_part(N)
    \/ keep
    \/ restart
    \/ step_whole
    \/ step_iter
    \/ integrate_body
    \/ detect
    \/ resolve
    \/ constrain
    \/ record
    \/ step_return

SpecCompose == InitCompose /\ [][NextCompose]_vars

\* C22: step(N) followed by step(M) on one engine gives the snapshots and the
\* energy values of step(N + M) from the same initial state, the first
\* call's followed by the second's, collision counts that add up to its
\* count, and the same final state of the bodies.
C22_Compositional ==
    (kept # NothingKept /\ Len(kept.calls) = 3) =>
        LET first == kept.calls[1]
            second == kept.calls[2]
            whole == kept.calls[3]
        IN  /\ whole.steps = first.steps + second.steps
            /\ whole.result.steps = first.result.steps \o second.result.steps
            /\ whole.result.conserved_energy =
                   first.result.conserved_energy \o second.result.conserved_energy
            /\ whole.result.collision_count =
                   first.result.collision_count + second.result.collision_count
            /\ whole.bodies = second.bodies

C22_BothCallsCollide ==
    /\ kept # NothingKept /\ Len(kept.calls) = 3
    /\ Len(constraints) > 0 /\ method = "rk4"
    /\ kept.calls[1].result.collision_count > 0
    /\ kept.calls[2].result.collision_count > 0
    /\ kept.calls[1].steps # kept.calls[2].steps
    /\ kept.calls[1].bodies # kept.origin
    /\ kept.calls[2].bodies # kept.calls[1].bodies

\* C23 (as stated): when add_body raises because the identifier is already
\* registered, the body the caller passed is as the caller made it: one made
\* with no forces still has none.
C23_RejectedUnchanged ==
    [][\A id \in Ids, args \in BodyArgs :
          (add_body(id, args) /\ err' = "ValueError")
              => passed' = BodyInit([identifier |-> id] @@ args).body]_vars

====
